---- MODULE Spec2Model ----
(***************************************************************************)
(* Model of crates/project/src/search.rs: PathMatcher, SearchQuery (text   *)
(* and regex variants), the wire round trip (to_proto / from_proto), the   *)
(* stream pre-filter (detect), the buffer matcher (search) with its        *)
(* cooperative yield points, and the path filter (file_matches).           *)
(*                                                                         *)
(* Strings are sequences of one-character strings; byte offsets are        *)
(* 0-based as in the source, so byte i of a string s is s[i + 1].  The     *)
(* alphabets are ASCII, so one character is one byte.                      *)
(***************************************************************************)
EXTENDS Integers, Sequences, FiniteSets, TLC

VARIABLES
    query,      \* the shared SearchQuery (&self of every method)
    rope,       \* rope[p]: the buffer (sequence of chunks) task p searches
    task,       \* task[p]: the state of the `search` future of task p
    stream,     \* the byte stream handed to detect
    detected,   \* the result of detect and the number of reads it made
    path,       \* the Option<&Path> handed to file_matches
    accepted,   \* the result of file_matches
    message,    \* the proto::SearchProject produced by to_proto
    decoded,    \* the Result<SearchQuery> produced by from_proto
    alone       \* alone[p]: what search returns for rope[p] when run alone

vars == <<query, rope, task, stream, detected, path, accepted, message, decoded, alone>>

-----------------------------------------------------------------------------
(* Option and Result values *)

None == <<>>
Some(v) == <<v>>
IsSome(o) == o # <<>>
Unwrap(o) == o[1]

Ok(v) == <<"Ok", v>>
Err(e) == <<"Err", e>>
IsOk(r) == r[1] = "Ok"

-----------------------------------------------------------------------------
(* Bounded sequences and string helpers *)

SeqsUpTo(S, n) == UNION {[1..k -> S] : k \in 0..n}

Min(a, b) == IF a <= b THEN a ELSE b

Skip(s, n) == IF n >= Len(s) THEN <<>> ELSE SubSeq(s, n + 1, Len(s))

Take(s, n) == IF n <= 0 THEN <<>> ELSE SubSeq(s, 1, Min(n, Len(s)))

-----------------------------------------------------------------------------
(* Characters *)

WhitespaceChars == {" ", "\n", "\r", "\t"}

LowerChars == {"a", "b", "c", "d", "f", "g", "l", "n", "o", "r", "t"}

UpperChars == {"A", "B"}

WordChars == LowerChars \cup UpperChars \cup {"_", "0"}

\* u8::to_ascii_lowercase, as applied by ascii_case_insensitive(true) and
\* by RegexBuilder::case_insensitive(true) on the ASCII alphabet.
to_ascii_lowercase(c) == IF c = "A" THEN "a" ELSE IF c = "B" THEN "b" ELSE c

\* language::char_kind: the three-way classification used by whole-word
\* literal search.
char_kind(c) ==
    IF c \in WhitespaceChars THEN "Whitespace"
    ELSE IF c \in WordChars THEN "Word"
    ELSE "Punctuation"

-----------------------------------------------------------------------------
(* PathMatcher *)

\* str::split(sep): the pieces between separators; always at least one piece.
RECURSIVE split(_, _)
split(s, sep) ==
    IF \A i \in 1..Len(s) : s[i] # sep THEN <<s>>
    ELSE LET i == CHOOSE j \in 1..Len(s) :
                     /\ s[j] = sep
                     /\ \A k \in 1..(j - 1) : s[k] # sep
         IN <<Take(s, i - 1)>> \o split(Skip(s, i), sep)

\* Path::components of a path string: a root flag and the non-empty
\* segments between '/' (repeated and trailing separators are dropped).
Components(p) ==
    LET segs == split(p, "/")
    IN [root |-> Len(p) > 0 /\ p[1] = "/",
        parts |-> SelectSeq(segs, LAMBDA seg : seg # <<>>)]

\* Path::starts_with: component-wise prefix.
starts_with(p, base) ==
    LET a == Components(p)
        b == Components(base)
    IN /\ a.root = b.root
       /\ Len(b.parts) <= Len(a.parts)
       /\ Take(a.parts, Len(b.parts)) = b.parts

\* Glob::new: the syntax check of the modelled glob fragment (literals, '?',
\* '*' and '{' ... '}' groups). depth is the number of open groups.
RECURSIVE GlobSyntaxOk(_, _)
GlobSyntaxOk(g, depth) ==
    IF g = <<>> THEN depth = 0
    ELSE IF g[1] = "{" THEN GlobSyntaxOk(Tail(g), depth + 1)
    ELSE IF g[1] = "}" THEN depth > 0 /\ GlobSyntaxOk(Tail(g), depth - 1)
    ELSE GlobSyntaxOk(Tail(g), depth)

\* GlobMatcher::is_match on the group-free fragment: the glob must match
\* the whole candidate path; '*' matches any run of characters, '/' too.
RECURSIVE GlobMatch(_, _)
GlobMatch(g, s) ==
    IF g = <<>> THEN s = <<>>
    ELSE IF g[1] = "*" THEN
        \/ GlobMatch(Tail(g), s)
        \/ s # <<>> /\ GlobMatch(g, Tail(s))
    ELSE IF s = <<>> THEN FALSE
    ELSE /\ (g[1] = "?" \/ g[1] = s[1])
         /\ GlobMatch(Tail(g), Tail(s))

\* PathMatcher::new
PathMatcherNew(maybe_glob) ==
    IF GlobSyntaxOk(maybe_glob, 0)
    THEN Ok([maybe_path |-> maybe_glob, glob |-> maybe_glob])
    ELSE Err(maybe_glob)

\* PathMatcher::is_match
is_match(matcher, other) ==
    starts_with(other, matcher.maybe_path) \/ GlobMatch(matcher.glob, other)

\* impl Display for PathMatcher
PathMatcherToString(matcher) == matcher.maybe_path


-----------------------------------------------------------------------------
(* The literal matcher (aho_corasick with exactly one pattern) *)

\* The least i in lo..hi with P(i), or -1. The window doubles so that the
\* scan stops soon after the first hit without recursing once per offset.
RECURSIVE FirstIn(_, _, _, _)
FirstIn(P(_), lo, hi, width) ==
    IF lo > hi THEN -1
    ELSE LET top == Min(hi, lo + width - 1)
             hits == {i \in lo..top : P(i)}
         IN IF hits # {} THEN CHOOSE i \in hits : \A j \in hits : i <= j
            ELSE FirstIn(P, top + 1, hi, 2 * width)

\* AhoCorasickBuilder::new().ascii_case_insensitive(..).build(&[&query])
AhoCorasickBuild(pattern, ascii_case_insensitive) ==
    [pattern |-> pattern, ascii_case_insensitive |-> ascii_case_insensitive]

\* Does the pattern occur in haystack t at byte offset i?
OccursAt(ac, t, i) ==
    /\ i + Len(ac.pattern) <= Len(t)
    /\ \A k \in 1..Len(ac.pattern) :
          IF ac.ascii_case_insensitive
          THEN to_ascii_lowercase(t[i + k]) = to_ascii_lowercase(ac.pattern[k])
          ELSE t[i + k] = ac.pattern[k]

\* The occurrence that starts at offset s, none when s is -1.
OccurrenceAt(ac, s) ==
    IF s = -1 THEN None
    ELSE Some([start |-> s, end |-> s + Len(ac.pattern)])

\* One call of next() on stream_find_iter: the leftmost occurrence starting
\* at or after pos (matches do not overlap: the caller resumes at its end).
\* An empty pattern matches at every offset and the scan then advances by
\* one byte.
StreamFindNext(ac, t, pos) ==
    OccurrenceAt(ac, FirstIn(LAMBDA i : OccursAt(ac, t, i), pos, Len(t), 4))

-----------------------------------------------------------------------------
(* The regex engine (regex crate), on the fragment: literals, '.', '*' on  *)
(* a literal or '.', '^', '$', and the escapes \n, \r, \b, \\.             *)

IsStar(q, i) == i <= Len(q) /\ q[i] = "*"

RECURSIVE SkipStars(_, _)
SkipStars(q, i) == IF IsStar(q, i) THEN SkipStars(q, i + 1) ELSE i

\* RegexBuilder::build: parse the pattern from position i on.
RECURSIVE RegexParse(_, _)
RegexParse(q, i) ==
    IF i > Len(q) THEN Ok(<<>>)
    ELSE
      LET c == q[i]
          escaped == c = "\\"
          atom ==
            IF escaped THEN
                 IF i = Len(q) THEN None
                 ELSE IF q[i + 1] = "n" THEN Some([t |-> "lit", c |-> "\n"])
                 ELSE IF q[i + 1] = "r" THEN Some([t |-> "lit", c |-> "\r"])
                 ELSE IF q[i + 1] = "b" THEN Some([t |-> "wb"])
                 ELSE IF q[i + 1] = "\\" THEN Some([t |-> "lit", c |-> "\\"])
                 ELSE None
            ELSE IF c = "*" THEN None
            ELSE IF c = "^" THEN Some([t |-> "bol"])
            ELSE IF c = "$" THEN Some([t |-> "eol"])
            ELSE IF c = "." THEN Some([t |-> "any"])
            ELSE Some([t |-> "lit", c |-> c])
          next == IF escaped THEN i + 2 ELSE i + 1
      IN IF atom = None THEN Err(q)
         ELSE LET after == SkipStars(q, next)
                  starred == after > next
                  a == Unwrap(atom)
                  item == IF ~starred THEN <<a>>
                          ELSE IF a.t \in {"lit", "any"}
                               THEN <<[t |-> "star", of |-> a]>>
                               ELSE <<>>
                  rest == RegexParse(q, after)
              IN IF IsOk(rest) THEN Ok(item \o rest[2]) ELSE rest

\* RegexBuilder::new(&query).case_insensitive(..).multi_line(..).build()
RegexBuild(source, case_insensitive, multi_line) ==
    LET parsed == RegexParse(source, 1)
    IN IF IsOk(parsed)
       THEN Ok([items |-> parsed[2], case_insensitive |-> case_insensitive,
                multi_line |-> multi_line])
       ELSE parsed

\* Does a consuming atom match the character c?
AtomMatches(re, a, c) ==
    IF a.t = "any" THEN c # "\n"
    ELSE IF re.case_insensitive
         THEN to_ascii_lowercase(c) = to_ascii_lowercase(a.c)
         ELSE c = a.c

IsWordAt(t, i) == i >= 0 /\ i < Len(t) /\ t[i + 1] \in WordChars

\* The longest run of characters matching atom a from offset i.
RECURSIVE RunLength(_, _, _, _)
RunLength(re, a, t, i) ==
    IF i < Len(t) /\ AtomMatches(re, a, t[i + 1])
    THEN 1 + RunLength(re, a, t, i + 1)
    ELSE 0

\* The end offset of the leftmost-first match of items[k..] anchored at
\* offset i of t, or -1. A star is greedy and backtracks.
RECURSIVE MatchItems(_, _, _, _)
RECURSIVE StarTry(_, _, _, _, _)
MatchItems(re, k, t, i) ==
    IF k > Len(re.items) THEN i
    ELSE LET item == re.items[k]
         IN CASE item.t \in {"lit", "any"} ->
                   IF i < Len(t) /\ AtomMatches(re, item, t[i + 1])
                   THEN MatchItems(re, k + 1, t, i + 1) ELSE -1
              [] item.t = "bol" ->
                   IF i = 0 \/ (re.multi_line /\ t[i] = "\n")
                   THEN MatchItems(re, k + 1, t, i) ELSE -1
              [] item.t = "eol" ->
                   IF i = Len(t) \/ (re.multi_line /\ t[i + 1] = "\n")
                   THEN MatchItems(re, k + 1, t, i) ELSE -1
              [] item.t = "wb" ->
                   IF IsWordAt(t, i - 1) # IsWordAt(t, i)
                   THEN MatchItems(re, k + 1, t, i) ELSE -1
              [] item.t = "star" ->
                   StarTry(re, k, t, i, RunLength(re, item.of, t, i))
StarTry(re, k, t, i, n) ==
    LET e == MatchItems(re, k + 1, t, i + n)
    IN IF e # -1 THEN e
       ELSE IF n = 0 THEN -1
       ELSE StarTry(re, k, t, i, n - 1)

\* The match that starts at offset s, none when s is -1.
MatchAt(re, t, s) ==
    IF s = -1 THEN None
    ELSE Some([start |-> s, end |-> MatchItems(re, 1, t, s)])

\* Regex::find_at: the leftmost match starting at or after start.
find_at(re, t, start) ==
    MatchAt(re, t, FirstIn(LAMBDA i : MatchItems(re, 1, t, i) # -1,
                           start, Len(t), 4))

\* Regex::find
find(re, t) == find_at(re, t, 0)

\* The iterator of Regex::find_iter
NewMatches == [last_end |-> 0, last_match |-> None]

\* One call of next() on the iterator of Regex::find_iter: successive
\* non-overlapping matches; an empty match right at the end of the previous
\* match is skipped. Returns the item and the iterator's new state.
RECURSIVE MatchesNext(_, _, _)
RECURSIVE MatchesNextOn(_, _, _, _)
MatchesNext(re, t, it) ==
    IF it.last_end > Len(t) THEN [item |-> None, it |-> it]
    ELSE MatchesNextOn(re, t, it, find_at(re, t, it.last_end))
\* The rest of next() once find_at has returned m.
MatchesNextOn(re, t, it, m) ==
    IF m = None THEN [item |-> None, it |-> it]
    ELSE IF Unwrap(m).start = Unwrap(m).end
         THEN IF Some(Unwrap(m).end) = it.last_match
              THEN MatchesNext(re, t, [it EXCEPT !.last_end = Unwrap(m).end + 1])
              ELSE [item |-> m,
                    it |-> [last_end |-> Unwrap(m).end + 1,
                            last_match |-> Some(Unwrap(m).end)]]
         ELSE [item |-> m,
               it |-> [last_end |-> Unwrap(m).end,
                       last_match |-> Some(Unwrap(m).end)]]

\* regex.find_iter(t) collected: all matches of t, in order.
RECURSIVE FindIterFrom(_, _, _)
RECURSIVE FindIterOn(_, _, _)
FindIterFrom(re, t, it) == FindIterOn(re, t, MatchesNext(re, t, it))
\* The items from the one next() has returned (n) on.
FindIterOn(re, t, n) ==
    IF n.item = None THEN <<>>
    ELSE <<Unwrap(n.item)>> \o FindIterFrom(re, t, n.it)

find_iter(re, t) == FindIterFrom(re, t, NewMatches)

-----------------------------------------------------------------------------
(* SearchQuery: construction and accessors *)

SearchInputs(q, files_to_include, files_to_exclude) ==
    [query |-> q, files_to_include |-> files_to_include,
     files_to_exclude |-> files_to_exclude]

\* str::contains(needle)
contains(s, needle) ==
    \E i \in 0..(Len(s) - Len(needle)) :
        \A k \in 1..Len(needle) : s[i + k] = needle[k]

\* SearchQuery::text
SearchQueryText(q, whole_word, case_sensitive, files_to_include, files_to_exclude) ==
    [variant |-> "Text",
     search |-> AhoCorasickBuild(q, ~case_sensitive),
     whole_word |-> whole_word,
     case_sensitive |-> case_sensitive,
     inner |-> SearchInputs(q, files_to_include, files_to_exclude)]

\* SearchQuery::regex
SearchQueryRegex(q, whole_word, case_sensitive, files_to_include, files_to_exclude) ==
    LET initial_query == q
        word_query == IF whole_word THEN <<"\\", "b">> \o q \o <<"\\", "b">> ELSE q
        multiline == contains(word_query, <<"\n">>) \/ contains(word_query, <<"\\", "n">>)
        built == RegexBuild(word_query, ~case_sensitive, multiline)
    IN IF IsOk(built)
       THEN Ok([variant |-> "Regex",
                regex |-> built[2],
                multiline |-> multiline,
                whole_word |-> whole_word,
                case_sensitive |-> case_sensitive,
                inner |-> SearchInputs(initial_query, files_to_include, files_to_exclude)])
       ELSE built

as_inner(self) == self.inner

as_str(self) == as_inner(self).query

whole_word(self) == self.whole_word

case_sensitive(self) == self.case_sensitive

is_regex(self) == self.variant = "Regex"

files_to_include(self) == as_inner(self).files_to_include

files_to_exclude(self) == as_inner(self).files_to_exclude

-----------------------------------------------------------------------------
(* file_matches *)

\* Iterator::any over a list of matchers, left to right, stopping at the
\* first matcher that matches.
RECURSIVE any_is_match(_, _)
any_is_match(matchers, file_path) ==
    IF matchers = <<>> THEN FALSE
    ELSE IF is_match(Head(matchers), file_path) THEN TRUE
    ELSE any_is_match(Tail(matchers), file_path)

\* file_matches with the include test made first: a path an include matcher
\* matches is accepted before the exclude list is consulted.
file_matches_include_first(self, file_path) ==
    IF IsSome(file_path)
    THEN \/ /\ files_to_include(self) # <<>>
            /\ any_is_match(files_to_include(self), Unwrap(file_path))
         \/ /\ files_to_include(self) = <<>>
            /\ ~any_is_match(files_to_exclude(self), Unwrap(file_path))
    ELSE files_to_include(self) = <<>>

\* SearchQuery::file_matches
file_matches(self, file_path) ==
    IF IsSome(file_path)
    THEN /\ ~any_is_match(files_to_exclude(self), Unwrap(file_path))
         /\ \/ files_to_include(self) = <<>>
            \/ any_is_match(files_to_include(self), Unwrap(file_path))
    ELSE files_to_include(self) = <<>>

-----------------------------------------------------------------------------
(* The wire form *)

\* Itertools::join(","): the strings with one ',' between neighbours.
RECURSIVE join(_, _)
join(strs, sep) ==
    IF strs = <<>> THEN <<>>
    ELSE IF Len(strs) = 1 THEN strs[1]
    ELSE strs[1] \o <<sep>> \o join(Tail(strs), sep)

\* str::trim: drop leading and trailing whitespace.
RECURSIVE trim(_)
trim(s) ==
    IF s = <<>> THEN s
    ELSE IF s[1] \in WhitespaceChars THEN trim(Tail(s))
    ELSE IF s[Len(s)] \in WhitespaceChars THEN trim(Take(s, Len(s) - 1))
    ELSE s

MapSeq(f(_), s) == [i \in 1..Len(s) |-> f(s[i])]

\* collect::<Result<Vec<_>>>: the values, or the first error.
RECURSIVE collect(_)
collect(results) ==
    IF results = <<>> THEN Ok(<<>>)
    ELSE IF ~IsOk(Head(results)) THEN Head(results)
    ELSE LET rest == collect(Tail(results))
         IN IF IsOk(rest) THEN Ok(<<Head(results)[2]>> \o rest[2]) ELSE rest

\* deserialize_path_matches
deserialize_path_matches(glob_set) ==
    LET trimmed == MapSeq(trim, split(glob_set, ","))
        kept == SelectSeq(trimmed, LAMBDA glob_str : glob_str # <<>>)
    IN collect(MapSeq(PathMatcherNew, kept))

\* SearchQuery::to_proto
to_proto(self, project_id) ==
    [project_id |-> project_id,
     query |-> as_str(self),
     regex |-> is_regex(self),
     whole_word |-> whole_word(self),
     case_sensitive |-> case_sensitive(self),
     files_to_include |-> join(MapSeq(PathMatcherToString, files_to_include(self)), ","),
     files_to_exclude |-> join(MapSeq(PathMatcherToString, files_to_exclude(self)), ",")]

\* SearchQuery::from_proto
from_proto(msg) ==
    LET include == deserialize_path_matches(msg.files_to_include)
        exclude == deserialize_path_matches(msg.files_to_exclude)
    IN IF ~IsOk(include) THEN include
       ELSE IF ~IsOk(exclude) THEN exclude
       ELSE IF msg.regex
            THEN SearchQueryRegex(msg.query, msg.whole_word, msg.case_sensitive,
                                  include[2], exclude[2])
            ELSE Ok(SearchQueryText(msg.query, msg.whole_word, msg.case_sensitive,
                                    include[2], exclude[2]))

-----------------------------------------------------------------------------
(* Ropes and streams *)

\* The concatenation of chunks lo..hi of a rope (rope.to_string(), and the
\* bytes of rope.bytes_in_range(0..rope.len())), by halving.
RECURSIVE ConcatRange(_, _, _)
ConcatRange(chunks, lo, hi) ==
    IF lo > hi THEN <<>>
    ELSE IF lo = hi THEN chunks[lo]
    ELSE LET mid == (lo + hi) \div 2
         IN ConcatRange(chunks, lo, mid) \o ConcatRange(chunks, mid + 1, hi)

RopeToString(chunks) == ConcatRange(chunks, 1, Len(chunks))

\* BufRead::lines: each line without its '\n' or "\r\n" terminator; no line
\* is produced after a final terminator.
RECURSIVE lines(_)
lines(data) ==
    IF data = <<>> THEN <<>>
    ELSE IF \A i \in 1..Len(data) : data[i] # "\n" THEN <<data>>
    ELSE LET i == CHOOSE j \in 1..Len(data) :
                     /\ data[j] = "\n"
                     /\ \A k \in 1..(j - 1) : data[k] # "\n"
             raw == Take(data, i - 1)
             line == IF raw # <<>> /\ raw[Len(raw)] = "\r"
                     THEN Take(raw, Len(raw) - 1) ELSE raw
         IN <<line>> \o lines(Skip(data, i))

-----------------------------------------------------------------------------
(* detect *)

RECURSIVE any_line_matches(_, _)
any_line_matches(re, ls) ==
    IF ls = <<>> THEN FALSE
    ELSE IF find(re, Head(ls)) # None THEN TRUE
    ELSE any_line_matches(re, Tail(ls))

\* detect with the empty-query test made after the first read of the stream.
detect_reads_first(self, strm) ==
    IF strm.fails THEN [result |-> Err("io"), reads |-> 1]
    ELSE IF as_str(self) = <<>> THEN [result |-> Ok(FALSE), reads |-> 1]
    ELSE IF self.variant = "Text"
         THEN [result |-> Ok(StreamFindNext(self.search, strm.data, 0) # None),
               reads |-> 1]
    ELSE IF self.multiline
         THEN [result |-> Ok(find(self.regex, strm.data) # None), reads |-> 1]
    ELSE [result |-> Ok(any_line_matches(self.regex, lines(strm.data))),
          reads |-> 1]

\* SearchQuery::detect. A stream is its bytes and whether reading it fails;
\* reads counts the reads made of it.
detect(self, strm) ==
    IF as_str(self) = <<>> THEN [result |-> Ok(FALSE), reads |-> 0]
    ELSE IF strm.fails THEN [result |-> Err("io"), reads |-> 1]
    ELSE IF self.variant = "Text"
         THEN [result |-> Ok(StreamFindNext(self.search, strm.data, 0) # None),
               reads |-> 1]
    ELSE IF self.multiline
         THEN [result |-> Ok(find(self.regex, strm.data) # None), reads |-> 1]
    ELSE [result |-> Ok(any_line_matches(self.regex, lines(strm.data))),
          reads |-> 1]

-----------------------------------------------------------------------------
(* search *)

YIELD_INTERVAL == 20000

\* The state of a search future: where it is (pc), the enumerate index of
\* the loop (ix), the iterators (pos, it), the item in hand while suspended
\* (mat), the locals of the single-line loop (line, line_offset), the result
\* (matches); yields counts the yield points reached and flushed records
\* each flushed line with the line_offset it was flushed at.
NewTask ==
    [pc |-> "init", ix |-> 0, pos |-> 0, it |-> NewMatches, mat |-> None,
     line |-> <<>>, line_offset |-> 0, matches |-> <<>>,
     yields |-> 0, flushed |-> <<>>]

\* The yield condition on the index itself: the first item already yields.
AtYieldPoint_zero_based(ix) == ix % YIELD_INTERVAL = 0

\* The condition guarding yield_now().await
AtYieldPoint(ix) == (ix + 1) % YIELD_INTERVAL = 0

\* A suspension that hands the matches collected so far away: the future
\* resumes with an empty vector.
yield_now_loses_matches(s) ==
    [s EXCEPT !.pc = "yield", !.yields = @ + 1, !.matches = <<>>]

\* yield_now().await: the future is suspended with its locals kept.
yield_now(s) == [s EXCEPT !.pc = "yield", !.yields = @ + 1]

Range(m) == [start |-> m.start, end |-> m.end]

\* The whole-word test skipping a match only when it is unbounded on both
\* sides.
NotWholeWord_both_sides(t, m) ==
    LET prev_kind == IF m.start > 0 THEN Some(char_kind(t[m.start])) ELSE None
        start_kind == char_kind(t[m.start + 1])
        end_kind == char_kind(t[m.end])
        next_kind == IF m.end < Len(t) THEN Some(char_kind(t[m.end + 1])) ELSE None
    IN Some(start_kind) = prev_kind /\ Some(end_kind) = next_kind

\* The whole-word test of the literal loop: TRUE when the match is skipped.
NotWholeWord(t, m) ==
    LET prev_kind == IF m.start > 0 THEN Some(char_kind(t[m.start])) ELSE None
        start_kind == char_kind(t[m.start + 1])
        end_kind == char_kind(t[m.end])
        next_kind == IF m.end < Len(t) THEN Some(char_kind(t[m.end + 1])) ELSE None
    IN Some(start_kind) = prev_kind \/ Some(end_kind) = next_kind

\* The body of the literal loop after the yield point.
TextBody(self, t, s, m) ==
    [s EXCEPT !.pc = "run", !.mat = None, !.ix = @ + 1,
              !.matches = IF self.whole_word /\ NotWholeWord(t, m)
                          THEN @ ELSE Append(@, Range(m))]

\* The literal loop once the iterator has returned n: the loop ends, or
\* the item is taken (the iterator resumes at its end) and the future yields
\* or goes on to the body.
TextItem(self, t, s, may_yield, n) ==
    IF n = None THEN [s EXCEPT !.pc = "done"]
    ELSE IF may_yield /\ AtYieldPoint(s.ix)
         THEN yield_now([s EXCEPT !.pos = IF Unwrap(n).end > Unwrap(n).start
                                           THEN Unwrap(n).end
                                           ELSE Unwrap(n).end + 1,
                                  !.mat = n])
         ELSE TextBody(self, t,
                       [s EXCEPT !.pos = IF Unwrap(n).end > Unwrap(n).start
                                         THEN Unwrap(n).end
                                         ELSE Unwrap(n).end + 1],
                       Unwrap(n))

\* One iteration of the literal loop, or its resumption after a yield.
TextStep(self, t, s, may_yield) ==
    IF s.pc = "yield" THEN TextBody(self, t, s, Unwrap(s.mat))
    ELSE TextItem(self, t, s, may_yield,
                  StreamFindNext(self.search, t, s.pos))

\* The body of the multiline regex loop after the yield point.
MultilineBody(s, m) ==
    [s EXCEPT !.pc = "run", !.mat = None, !.ix = @ + 1,
              !.matches = Append(@, Range(m))]

\* The multiline loop once the iterator has returned n (the item and the
\* iterator's new state).
MultilineItem(s, may_yield, n) ==
    IF n.item = None THEN [s EXCEPT !.pc = "done"]
    ELSE IF may_yield /\ AtYieldPoint(s.ix)
         THEN yield_now([s EXCEPT !.it = n.it, !.mat = n.item])
         ELSE MultilineBody([s EXCEPT !.it = n.it], Unwrap(n.item))

\* One iteration of the multiline regex loop, or its resumption.
MultilineStep(self, t, s, may_yield) ==
    IF s.pc = "yield" THEN MultilineBody(s, Unwrap(s.mat))
    ELSE MultilineItem(s, may_yield, MatchesNext(self.regex, t, s.it))

\* The matches found in a line as ranges of the buffer: start and end moved
\* by line_offset.
Shifted(found, line_offset) ==
    [i \in 1..Len(found) |-> [start |-> line_offset + found[i].start,
                              end |-> line_offset + found[i].end]]

\* The flush with line_offset advanced by the line's length only, the
\* newline separator forgotten.
FlushLine_no_newline(self, s) ==
       [s EXCEPT !.matches = @ \o Shifted(find_iter(self.regex, s.line),
                                           s.line_offset),
                 !.flushed = Append(@, [line_offset |-> s.line_offset,
                                        line |-> s.line]),
                 !.line_offset = @ + Len(s.line),
                 !.line = <<>>]

\* The flush of the accumulated line at a newline: its matches are pushed,
\* shifted by line_offset, and line_offset moves past the line and its '\n'.
FlushLine(self, s) ==
       [s EXCEPT !.matches = @ \o Shifted(find_iter(self.regex, s.line),
                                           s.line_offset),
                 !.flushed = Append(@, [line_offset |-> s.line_offset,
                                        line |-> s.line]),
                 !.line_offset = @ + Len(s.line) + 1,
                 !.line = <<>>]

\* The inner loop over chunk.split('\n').enumerate(), from piece newline_ix.
RECURSIVE SplitLoop(_, _, _, _)
SplitLoop(self, s, pieces, newline_ix) ==
    IF newline_ix >= Len(pieces) THEN s
    ELSE SplitLoop(self,
                   [(IF newline_ix > 0 THEN FlushLine(self, s) ELSE s)
                        EXCEPT !.line = @ \o pieces[newline_ix + 1]],
                   pieces, newline_ix + 1)

\* rope.chunks().chain(["\n"])
ChainedChunk(chunks, chunk_ix) ==
    IF chunk_ix < Len(chunks) THEN chunks[chunk_ix + 1] ELSE <<"\n">>

\* The single-line loop body with the line accumulator declared inside the
\* chunk loop: each chunk starts with an empty line.
SingleLineBody_fresh_line(self, chunks, s) ==
    [SplitLoop(self, [s EXCEPT !.line = <<>>],
               split(ChainedChunk(chunks, s.ix), "\n"), 0)
        EXCEPT !.pc = "run", !.ix = @ + 1]

\* The body of the single-line regex loop after the yield point.
SingleLineBody(self, chunks, s) ==
    [SplitLoop(self, s, split(ChainedChunk(chunks, s.ix), "\n"), 0)
        EXCEPT !.pc = "run", !.ix = @ + 1]

\* One iteration of the single-line regex loop, or its resumption.
SingleLineStep(self, chunks, s, may_yield) ==
    IF s.pc # "yield" /\ s.ix > Len(chunks) THEN [s EXCEPT !.pc = "done"]
    ELSE IF s.pc # "yield" /\ may_yield /\ AtYieldPoint(s.ix) THEN yield_now(s)
    ELSE SingleLineBody(self, chunks, s)

\* One iteration of the loop of the query's variant. t is the rope's text.
SearchStep(self, chunks, t, s, may_yield) ==
    IF self.variant = "Text" THEN TextStep(self, t, s, may_yield)
    ELSE IF self.multiline THEN MultilineStep(self, t, s, may_yield)
    ELSE SingleLineStep(self, chunks, s, may_yield)

\* Up to n iterations (at least one when n > 0), stopping when the future
\* suspends or returns. The first half is evaluated before the second is
\* entered.
RECURSIVE RunSteps(_, _, _, _, _, _)
RunSteps(self, chunks, t, s, may_yield, n) ==
    IF n = 0 THEN s
    ELSE IF n = 1 THEN SearchStep(self, chunks, t, s, may_yield)
    ELSE LET half == RunSteps(self, chunks, t, s, may_yield, n \div 2)
         IN IF half.pc # "run" THEN half
            ELSE RunSteps(self, chunks, t, half, may_yield, n - (n \div 2))

\* One poll of the future of SearchQuery::search: from the call, or from
\* the yield point it is suspended at, to the next yield point or the return.
poll(self, chunks, s) ==
    IF s.pc = "init" /\ as_str(self) = <<>> THEN [s EXCEPT !.pc = "done"]
    ELSE RunSteps(self, chunks, RopeToString(chunks),
                  IF s.pc = "init" THEN [s EXCEPT !.pc = "run"] ELSE s,
                  TRUE, YIELD_INTERVAL + 1)

\* SearchQuery::search driven to completion with no suspension: the ranges
\* a search returns when it runs alone.
search(self, chunks) ==
    IF as_str(self) = <<>> THEN <<>>
    ELSE RunSteps(self, chunks, RopeToString(chunks),
                  [NewTask EXCEPT !.pc = "run"], FALSE,
                  Len(RopeToString(chunks)) + Len(chunks) + 3).matches

-----------------------------------------------------------------------------
(* Specification Spec: one search and one detect of the same document *)

MaxQueryLen == 2

MaxTextLen == 4

MaxChunkLen == 1

MaxChunks == 2

TextChars == {"a", " ", "."}

RegexChars == {"a", "\n"}

\* Literal queries with the text they are run on.
TextExamples ==
    {<<<<"c", "a", "t">>,
       <<"c", "a", "t", " ", "c", "a", "t", "a", "l", "o", "g", " ", "c", "a", "t">>>>,
     <<<<"a", " ", "a">>, <<"b", "a", " ", "a", " ", "a">>>>,
     <<<<"a", "b">>, <<"A", "b", " ", "a", "B", "_">>>>}

TextInputs ==
    (SeqsUpTo(TextChars, MaxQueryLen) \X SeqsUpTo(TextChars, MaxTextLen))
    \cup TextExamples

\* The regex sources the model compiles: the empty query, literals, '.',
\* stars, anchors, a carriage return, and multiline patterns (an escaped or
\* a literal newline).
RegexSources ==
    {<<>>, <<"a">>, <<"a", "a">>, <<"a", "*">>, <<".">>, <<".", "*">>,
     <<"^">>, <<"$">>, <<"^", "$">>, <<"^", "a">>, <<"a", "$">>,
     <<"\\", "r">>, <<"a", "\\", "r">>, <<"\\", "r", "$">>,
     <<"\\", "n">>, <<"a", "\\", "n", "a">>, <<"a", "\n">>,
     <<"^", "a", "\\", "n">>, <<"a", "$", "\\", "n">>}

RegexChunks == SeqsUpTo(RegexChars, MaxChunkLen)

\* Documents with "\r\n" line ends, cut in and around the line end.
RegexExampleRopes ==
    {<<<<"a", "\r", "\n", "a">>>>,
     <<<<"a", "\r">>, <<"\n", "a">>>>,
     <<<<"a">>, <<"\r", "\n">>, <<>>, <<"a", "\r", "\n">>>>,
     <<<<"\r", "\n">>>>,
     <<<<"a", "a">>, <<"\r">>>>,
     <<<<"a">>, <<"a", "\n">>, <<"a">>>>}

RegexRopes == SeqsUpTo(RegexChunks, MaxChunks) \cup RegexExampleRopes

InitText ==
    \E in \in TextInputs, w \in BOOLEAN, c \in BOOLEAN :
        /\ query = SearchQueryText(in[1], w, c, <<>>, <<>>)
        /\ rope = <<<<in[2]>>>>

InitRegex ==
    \E src \in RegexSources, w \in BOOLEAN, chunks \in RegexRopes :
        /\ IsOk(SearchQueryRegex(src, w, TRUE, <<>>, <<>>))
        /\ query = SearchQueryRegex(src, w, TRUE, <<>>, <<>>)[2]
        /\ rope = <<chunks>>

Init ==
    /\ InitText \/ InitRegex
    /\ task = <<NewTask>>
    /\ \E fails \in BOOLEAN :
          stream = [data |-> RopeToString(rope[1]), fails |-> fails]
    /\ detected = None
    /\ path = None /\ accepted = None /\ message = None /\ decoded = None
    /\ alone = None

\* The scheduler polls the search future of task p.
Poll(p) ==
    /\ task[p].pc \in {"init", "yield"}
    /\ task' = [task EXCEPT ![p] = poll(query, rope[p], @)]
    /\ UNCHANGED <<query, rope, stream, detected, path, accepted, message, decoded, alone>>

\* A worker runs detect on the stream.
Detect ==
    /\ detected = None
    /\ detected' = Some(detect(query, stream))
    /\ UNCHANGED <<query, rope, task, stream, path, accepted, message, decoded, alone>>

Next == (\E p \in DOMAIN task : Poll(p)) \/ Detect

Spec == Init /\ [][Next]_vars

IsText == query.variant = "Text"

IsSingleLine == query.variant = "Regex" /\ ~query.multiline

Done == task[1].pc = "done"

Text1 == RopeToString(rope[1])

\* C2: with an empty query string, in both variants and for every
\* whole_word and case_sensitive, search returns an empty sequence without
\* reaching a yield point and detect returns Ok(false) without reading the
\* stream, also when reading the stream would fail.
EmptyQueryShortCircuit ==
    as_str(query) = <<>> =>
        /\ task[1].pc # "init" =>
              /\ task[1].pc = "done"
              /\ task[1].matches = <<>>
              /\ task[1].yields = 0
        /\ detected # None =>
              /\ Unwrap(detected).result = Ok(FALSE)
              /\ Unwrap(detected).reads = 0

\* An empty regex query with whole_word set (its compiled pattern is not
\* empty) has searched a non-empty buffer and detected on a failing stream.
EmptyQueryWitness ==
    /\ as_str(query) = <<>>
    /\ query.variant = "Regex"
    /\ query.whole_word
    /\ Text1 # <<>>
    /\ stream.fails
    /\ Done
    /\ detected = Some([result |-> Ok(FALSE), reads |-> 0])

\* C3: in single-line regex mode search returns, for every document and
\* every way of cutting it into chunks, the ranges it returns for the same
\* document held as a single chunk.
ChunkingIrrelevant ==
    IsSingleLine /\ Done => task[1].matches = search(query, <<Text1>>)

\* A line cut in the middle by a chunk boundary, with a match across the cut.
ChunkingWitness ==
    /\ IsSingleLine
    /\ Done
    /\ Len(rope[1]) >= 2
    /\ \E i \in 1..Len(task[1].matches) :
          /\ task[1].matches[i].start < Len(rope[1][1])
          /\ task[1].matches[i].end > Len(rope[1][1])

\* The byte offset at which line k (from 1) of the text starts: the summed
\* lengths of the earlier lines plus one per newline.
RECURSIVE LineStart(_, _)
LineStart(ls, k) == IF k = 1 THEN 0 ELSE LineStart(ls, k - 1) + Len(ls[k - 1]) + 1

\* The matches of line k alone, shifted by off.
ShiftedMatches(k, off) ==
    LET found == find_iter(query.regex, split(Text1, "\n")[k])
    IN [i \in 1..Len(found) |-> [start |-> off + found[i].start,
                                 end |-> off + found[i].end]]

\* C4: in single-line regex mode every line of the buffer is flushed once,
\* the last one too (with or without a final newline), at a line_offset
\* equal to the byte offset of the line's first byte; the reported ranges
\* are the in-line matches shifted by that offset, lie within the buffer,
\* and are in ascending start order without overlap.
LineOffsetExact ==
    IsSingleLine /\ Done /\ as_str(query) # <<>> =>
        LET ls == split(Text1, "\n")
            fl == task[1].flushed
            ms == task[1].matches
        IN /\ Len(fl) = Len(ls)
           /\ \A k \in 1..Len(fl) :
                 /\ fl[k].line = ls[k]
                 /\ fl[k].line_offset = LineStart(ls, k)
                 /\ SubSeq(Text1, fl[k].line_offset + 1,
                           fl[k].line_offset + Len(ls[k])) = ls[k]
           /\ \A i \in 1..Len(ms) :
                 /\ 0 <= ms[i].start
                 /\ ms[i].start <= ms[i].end
                 /\ ms[i].end <= Len(Text1)
                 /\ \E k \in 1..Len(fl) :
                       \E j \in 1..Len(ShiftedMatches(k, fl[k].line_offset)) :
                           ShiftedMatches(k, fl[k].line_offset)[j] = ms[i]
           /\ \A i \in 1..(Len(ms) - 1) :
                 /\ ms[i].start < ms[i + 1].start
                 /\ ms[i].end <= ms[i + 1].start

\* A buffer without a final newline whose last line, not the first, holds
\* a match.
LineOffsetWitness ==
    /\ IsSingleLine
    /\ Done
    /\ Text1 # <<>>
    /\ Text1[Len(Text1)] # "\n"
    /\ Len(task[1].flushed) >= 2
    /\ task[1].matches # <<>>
    /\ task[1].matches[Len(task[1].matches)].start
          >= task[1].flushed[Len(task[1].flushed)].line_offset
    /\ task[1].matches[Len(task[1].matches)].end > task[1].matches[Len(task[1].matches)].start

\* The class of the character before start differs from the class of the
\* first matched character, and the class of the character after end from
\* the class of the last matched character; a missing character differs
\* from every class.
CleanlyBounded(t, m) ==
    /\ m.start = 0 \/ char_kind(t[m.start]) # char_kind(t[m.start + 1])
    /\ m.end = Len(t) \/ char_kind(t[m.end + 1]) # char_kind(t[m.end])

\* The raw matches of the literal matcher: the search without whole_word.
RawMatches == search([query EXCEPT !.whole_word = FALSE], rope[1])

Cat == <<"c", "a", "t">>

CatCatalogCat ==
    <<"c", "a", "t", " ", "c", "a", "t", "a", "l", "o", "g", " ", "c", "a", "t">>

\* C6: whole-word literal search reports a raw match iff it is cleanly
\* bounded on both sides; for "cat catalog cat" and "cat" the ranges
\* reported are exactly 0..3 and 12..15.
WholeWordFilter ==
    IsText /\ query.whole_word /\ Done /\ as_str(query) # <<>> =>
        /\ task[1].matches = SelectSeq(RawMatches, LAMBDA m : CleanlyBounded(Text1, m))
        /\ as_str(query) = Cat /\ Text1 = CatCatalogCat =>
              task[1].matches = <<[start |-> 0, end |-> 3], [start |-> 12, end |-> 15]>>

\* The whole-word search of "cat catalog cat" for "cat" has returned, with
\* the occurrence inside "catalog" left out.
WholeWordWitness ==
    /\ IsText
    /\ query.whole_word
    /\ as_str(query) = Cat
    /\ Text1 = CatCatalogCat
    /\ Done
    /\ Len(RawMatches) = 3
    /\ Len(task[1].matches) = 2

\* C9: the pre-filter never loses a file: if search on a buffer holding the
\* document returns a range, detect on a stream of the document's bytes
\* (with no read error) returns true.
PrefilterComplete ==
    Done /\ detected # None /\ ~stream.fails /\ task[1].matches # <<>> =>
        Unwrap(detected).result = Ok(TRUE)

\* C10: whole-word literal search reports every occurrence of the query
\* that is cleanly bounded on both sides.
WholeWordComplete ==
    IsText /\ query.whole_word /\ Done /\ as_str(query) # <<>> =>
        \A i \in 0..(Len(Text1) - Len(as_str(query))) :
            LET m == [start |-> i, end |-> i + Len(as_str(query))]
            IN OccursAt(query.search, Text1, i) /\ CleanlyBounded(Text1, m) =>
                  \E j \in 1..Len(task[1].matches) : task[1].matches[j] = m

-----------------------------------------------------------------------------
(* Specification SpecFilter: file_matches over bounded queries and paths *)

MaxGlobLen == 1

MaxMatchers == 2

MaxPathLen == 2

FilterGlobChars == {"a", "/", "*"}

FilterPathChars == {"a", "b", "/"}

\* The patterns PathMatcher::new accepts, without the recursive wildcard.
FilterPatterns ==
    {g \in SeqsUpTo(FilterGlobChars, MaxGlobLen) :
        /\ IsOk(PathMatcherNew(g))
        /\ ~contains(g, <<"*", "*">>)}

FilterMatchers == {PathMatcherNew(g)[2] : g \in FilterPatterns}

\* Include and exclude lists holding at most MaxMatchers matchers together.
FilterLists ==
    {<<Take(ms, k), Skip(ms, k)>> :
        ms \in SeqsUpTo(FilterMatchers, MaxMatchers), k \in 0..MaxMatchers}

FilterQueries ==
    {SearchQueryText(<<"a">>, FALSE, TRUE, l[1], l[2]) : l \in FilterLists}
    \cup {SearchQueryRegex(<<"a">>, FALSE, TRUE, l[1], l[2])[2] : l \in FilterLists}

FilterPaths == {None} \cup {Some(p) : p \in SeqsUpTo(FilterPathChars, MaxPathLen)}

InitFilter ==
    /\ query \in FilterQueries
    /\ path \in FilterPaths
    /\ accepted = None
    /\ rope = None /\ task = None /\ stream = None /\ detected = None
    /\ message = None /\ decoded = None /\ alone = None

\* The caller's enumeration loop asks whether the candidate passes.
FileMatches ==
    /\ accepted = None
    /\ accepted' = Some(file_matches(query, path))
    /\ UNCHANGED <<query, rope, task, stream, detected, path, message, decoded, alone>>

NextFilter == FileMatches

SpecFilter == InitFilter /\ [][NextFilter]_vars

\* C1: file_matches returns true for a given path iff no exclude matcher
\* matches it and the include list is empty or some include matcher matches
\* it (so a path matched by both is rejected); for no path it returns true
\* iff the include list is empty, whatever the exclude list holds.
FileMatchesContract ==
    accepted # None =>
        LET incl == files_to_include(query)
            excl == files_to_exclude(query)
            excluded == \E i \in 1..Len(excl) : is_match(excl[i], Unwrap(path))
            included == \E i \in 1..Len(incl) : is_match(incl[i], Unwrap(path))
        IN IF path # None
           THEN /\ Unwrap(accepted) = (~excluded /\ (incl = <<>> \/ included))
                /\ (included /\ excluded => Unwrap(accepted) = FALSE)
           ELSE Unwrap(accepted) = (incl = <<>>)

\* A path that both an include and an exclude matcher match has been rejected.
FileMatchesWitness ==
    /\ accepted = Some(FALSE)
    /\ path # None
    /\ \E i \in 1..Len(files_to_include(query)) :
          is_match(files_to_include(query)[i], Unwrap(path))
    /\ \E i \in 1..Len(files_to_exclude(query)) :
          is_match(files_to_exclude(query)[i], Unwrap(path))

-----------------------------------------------------------------------------
(* Specification SpecProto: to_proto followed by from_proto *)

MaxProtoGlobLen == 5

ProtoGlobChars == {"a", ",", " ", "{", "}"}

ProtoMatchers ==
    {PathMatcherNew(g)[2] :
        g \in {h \in SeqsUpTo(ProtoGlobChars, MaxProtoGlobLen) : IsOk(PathMatcherNew(h))}}

\* One matcher at most, in the include or in the exclude list.
ProtoLists ==
    {<<Take(ms, k), Skip(ms, k)>> : ms \in SeqsUpTo(ProtoMatchers, 1), k \in 0..1}

ProtoQueryStrings == {<<>>, <<"a">>, <<"a", "*">>, <<"a", "\\", "n">>}

ProtoQueries ==
    {SearchQueryText(q, w, c, l[1], l[2]) :
        q \in ProtoQueryStrings, w \in BOOLEAN, c \in BOOLEAN, l \in ProtoLists}
    \cup {SearchQueryRegex(q, w, c, l[1], l[2])[2] :
        q \in ProtoQueryStrings, w \in BOOLEAN, c \in BOOLEAN, l \in ProtoLists}

ProjectId == 1

InitProto ==
    /\ query \in ProtoQueries
    /\ message = None
    /\ decoded = None
    /\ rope = None /\ task = None /\ stream = None /\ detected = None
    /\ path = None /\ accepted = None /\ alone = None

ToProto ==
    /\ message = None
    /\ message' = Some(to_proto(query, ProjectId))
    /\ UNCHANGED <<query, rope, task, stream, detected, path, accepted, decoded, alone>>

FromProto ==
    /\ message # None
    /\ decoded = None
    /\ decoded' = Some(from_proto(Unwrap(message)))
    /\ UNCHANGED <<query, rope, task, stream, detected, path, accepted, message, alone>>

NextProto == ToProto \/ FromProto

SpecProto == InitProto /\ [][NextProto]_vars

Patterns(matchers) == MapSeq(PathMatcherToString, matchers)

\* C5: from_proto(to_proto(q)) succeeds and yields a query with the same
\* regex flag, whole_word, case_sensitive and query string, and the same
\* include and exclude pattern lists in the same order, up to trimming of
\* surrounding whitespace in each pattern.
RoundTrip ==
    decoded # None =>
        /\ IsOk(Unwrap(decoded))
        /\ LET q == Unwrap(decoded)[2]
           IN /\ is_regex(q) = is_regex(query)
              /\ whole_word(q) = whole_word(query)
              /\ case_sensitive(q) = case_sensitive(query)
              /\ as_str(q) = as_str(query)
              /\ Patterns(files_to_include(q))
                    = MapSeq(trim, Patterns(files_to_include(query)))
              /\ Patterns(files_to_exclude(q))
                    = MapSeq(trim, Patterns(files_to_exclude(query)))

-----------------------------------------------------------------------------
(* Specification SpecYield: searches long enough to reach yield points,    *)
(* interleaved with another search, a detect and a file_matches call that  *)
(* share the SearchQuery                                                   *)

\* A rope of reps copies of the chunks of unit, built by doubling.
RECURSIVE RepeatChunks(_, _)
RepeatChunks(unit, reps) ==
    IF reps = 0 THEN <<>>
    ELSE IF reps = 1 THEN unit
    ELSE LET half == RepeatChunks(unit, reps \div 2)
         IN half \o half \o (IF reps % 2 = 1 THEN unit ELSE <<>>)

\* The line "a\n" held as one chunk, one chunk short of the yield interval
\* (the synthetic trailing chunk is then the 20,000th), and cut in two
\* chunks, 20,000 times (40,000 chunks holding 20,000 lines).
LargeRopes ==
    {RepeatChunks(<<<<"a", "\n">>>>, YIELD_INTERVAL - 1),
     RepeatChunks(<<<<"a">>, <<"\n">>>>, YIELD_INTERVAL)}

SmallRopes == {<<<<"a", "\n">>, <<"a">>>>}

YieldMatchers == <<PathMatcherNew(<<"a">>)[2]>>

\* A literal query, a single-line regex and a multiline regex.
YieldQueries ==
    {SearchQueryText(<<"a">>, FALSE, TRUE, YieldMatchers, <<>>)}
    \cup {SearchQueryRegex(src, FALSE, TRUE, YieldMatchers, <<>>)[2] :
            src \in {<<"a">>, <<"a", "\\", "n">>}}

InitYield ==
    /\ query \in YieldQueries
    /\ \E large \in LargeRopes, small \in SmallRopes : rope = <<large, small>>
    /\ task = <<NewTask, NewTask>>
    /\ stream = [data |-> RopeToString(rope[2]), fails |-> FALSE]
    /\ detected = None
    /\ path = Some(<<"a", "/", "b">>)
    /\ accepted = None
    /\ message = None /\ decoded = None
    /\ alone = <<search(query, rope[1]), search(query, rope[2])>>

NextYield == (\E p \in DOMAIN task : Poll(p)) \/ Detect \/ FileMatches

SpecYield == InitYield /\ [][NextYield]_vars

SuspensionTransparent ==
    /\ [](\A p \in DOMAIN task :
             task[p].pc = "done" => task[p].matches = alone[p])
    /\ [][query' = query]_vars

\* A search has returned a non-empty result after being suspended at a yield
\* point while the other search, the detect and the file_matches call ran.
SuspensionWitness ==
    /\ task[1].pc = "done"
    /\ task[1].yields >= 1
    /\ task[1].matches # <<>>
    /\ task[2].pc = "done"
    /\ detected # None
    /\ accepted # None

====
